---- MODULE Spec2Model ----
(***************************************************************************)
(* A model of blueblazer (src/blueblazer/blueblazer.py): the blending      *)
(* arithmetic of combine, the normalisation done by read_ingredients, the  *)
(* rejection loop of random_ratio and the assembly done by random_drink.   *)
(*                                                                         *)
(* Numbers.  The program computes with Python floats.  The model computes  *)
(* with exact decimals held as integers:                                   *)
(*   - a concentration (percentage, abv of a mix) is an integer number of  *)
(*     thousandths (400 is 0.4);                                           *)
(*   - a value read from the ingredients file is an integer number of      *)
(*     1e-5 (40000 is 0.4), so that /2.0 and *0.01 stay exact;             *)
(*   - a ratio part is an integer number of 10^-rounding (7 is 0.7 when    *)
(*     rounding = 1, and 70 when rounding = -1);                           *)
(*   - a value of random.random() is k / RandRes.                          *)
(* round(x, n) is Python 2's: to the nearest multiple of 10^-n, and away    *)
(* from zero when the double x is exactly a half.  The model does not hold *)
(* the double.  Where the exact decimal is not a half, the double is on    *)
(* the same side of the half and the result is the nearest multiple.       *)
(* Where the exact decimal is a half, the double may be that half or lie   *)
(* just below or above it (3.999/6 is 0.66649999999999998): round gives    *)
(* one of the two neighbours, and the model allows both.  So round, and    *)
(* what is computed from it, is a set of possible values.                  *)
(***************************************************************************)
EXTENDS Integers, Sequences, FiniteSets, TLC

VARIABLES
    pc,                 \* where the program is: which function runs, or how it ended
    ingredients,        \* combine: the argument, a sequence of <<amount, percentage>>
    i,                  \* combine: how many components the for loop has consumed
    final_amount,       \* combine: running total volume
    final_percentage,   \* combine: running concentration, in thousandths
    contents,           \* read_ingredients: the 'ingredients' list as the YAML gives it
    file_ingredients,   \* read_ingredients: the same list, normalised in place
    j,                  \* read_ingredients: how many entries the for loop has done
    rng,                \* the shared generator of module random
    seeded_draws,       \* per seed, the start of the sequence it fixes, as far as drawn
    follows,            \* how many draws of a seed's sequence the model follows
    rounding,           \* random_ratio: argument
    starting_seed,      \* random_ratio: argument (None when not given)
    first,              \* random_ratio: local
    second,             \* random_ratio: local
    third,              \* random_ratio: local
    total,              \* random_ratio: local
    ratio,              \* random_ratio: the returned list
    rejected,           \* history: some pass of the while loop ended in "continue"
    lost,               \* history: the call drew past what the model follows of a sequence
    caller,             \* who called random_ratio: "main" or "random_drink"
    drink_amount,       \* random_drink: argument amount
    ingredient_list,    \* random_drink: argument ingredients
    seed,               \* random_drink: argument seed
    drink_ingredients,  \* random_drink: the defaultdict(int), then the returned dict
    slot,               \* random_drink: how many parts of the ratio are placed
    picks               \* history: the index chosen for each part of the ratio

vars == <<pc, ingredients, i, final_amount, final_percentage, contents,
          file_ingredients, j, rng, seeded_draws, follows,
          rounding, starting_seed, first, second, third, total, ratio,
          rejected, lost, caller, drink_amount, ingredient_list, seed,
          drink_ingredients, slot, picks>>

combineVars == <<ingredients, i, final_amount, final_percentage>>

readVars == <<contents, file_ingredients, j>>

ratioVars == <<rounding, starting_seed, first, second, third, total, ratio,
               rejected, lost, caller>>

rngVars == <<rng, seeded_draws, follows>>

drinkVars == <<drink_amount, ingredient_list, seed, drink_ingredients, slot,
               picks>>

\* A seed of None (lines 115, 146: starting_seed=None, seed=None).  Seeds
\* proper are the integers from 0 up.
None == -1

----------------------------------------------------------------------------
(* Bounds of the model.                                                    *)

MaxLen == 3         \* longest component sequence given to combine
MaxAmount == 4      \* largest component volume given to combine
MinAmount == 2      \* the most negative component volume is -MinAmount

\* Concentrations given to combine, in thousandths: the floats 0.0, 0.4
\* and 1.0.
Percentages == {0, 400, 1000}

Amounts == (0 - MinAmount)..MaxAmount

Components == Amounts \X Percentages

CombineInputs == UNION {[1..n -> Components] : n \in 0..MaxLen}

----------------------------------------------------------------------------
(* Arithmetic.                                                             *)

Abs(x) == IF x < 0 THEN 0 - x ELSE x

\* The integer nearest to num / den (den > 0), an exact half away from zero.
Nearest(num, den) ==
    LET q == (2 * Abs(num) + den) \div (2 * den)
    IN IF num < 0 THEN 0 - q ELSE q

\* num / den lies exactly half way between two integers.
IsHalf(num, den) == (2 * Abs(num)) % (2 * den) = den

\* What rounding a double that stands for num / den (den > 0) to an integer
\* may give: the nearest integer, or either neighbour of an exact half.
RoundDiv(num, den) ==
    IF IsHalf(num, den)
    THEN {Nearest(num, den),
          Nearest(num, den) + (IF num < 0 THEN 1 ELSE 0 - 1)}
    ELSE {Nearest(num, den)}

\* 10^-ndigits, the unit round(x, ndigits) rounds to, is UnitNum / UnitDen:
\* a power of ten for a negative ndigits, one over a power of ten otherwise.
UnitNum(ndigits) == IF ndigits >= 0 THEN 1 ELSE 10 ^ (0 - ndigits)

UnitDen(ndigits) == IF ndigits >= 0 THEN 10 ^ ndigits ELSE 1

\* round(num / den, ndigits), as integer numbers of 10^-ndigits: the values
\* the call may return.
round(num, den, ndigits) ==
    RoundDiv(num * UnitDen(ndigits), den * UnitNum(ndigits))

RECURSIVE SumAmounts(_)
SumAmounts(s) == IF s = <<>> THEN 0 ELSE s[1][1] + SumAmounts(Tail(s))

\* Sum of amount * percentage, in thousandths of a volume unit.
RECURSIVE SumAlcohol(_)
SumAlcohol(s) == IF s = <<>> THEN 0 ELSE s[1][1] * s[1][2] + SumAlcohol(Tail(s))

Prefix(s, n) == SubSeq(s, 1, n)

----------------------------------------------------------------------------
(* combine (lines 21-59).                                                  *)

\* A variant of the loop body in which a step that leaves the running total
\* negative drops the component altogether, volume included.
step_drop(fa, fp, ingredient) ==
    LET amount == ingredient[1]
        percentage == ingredient[2]
        combined == fa * fp + amount * percentage
        new_amount == fa + amount
    IN IF new_amount < 0
       THEN {[final_amount |-> fa, final_percentage |-> fp, err |-> FALSE]}
       ELSE IF new_amount = 0
       THEN {[final_amount |-> new_amount, final_percentage |-> fp, err |-> TRUE]}
       ELSE {[final_amount |-> new_amount, final_percentage |-> c,
              err |-> FALSE] : c \in round(combined, 1000 * new_amount, 3)}

\* A variant of the loop body whose guard is "final_amount <= 0".
step_le(fa, fp, ingredient) ==
    LET amount == ingredient[1]
        percentage == ingredient[2]
        combined == fa * fp + amount * percentage
        new_amount == fa + amount
    IN IF new_amount <= 0
       THEN {[final_amount |-> new_amount, final_percentage |-> fp, err |-> FALSE]}
       ELSE {[final_amount |-> new_amount, final_percentage |-> c,
              err |-> FALSE] : c \in round(combined, 1000 * new_amount, 3)}

\* One pass of the for loop (lines 43-58) from running totals (fa, fp):
\* the new running totals the pass may leave, or err when the division
\* raises ZeroDivisionError.  The percentages are floats, so that line 57
\* is a float division.
step(fa, fp, ingredient) ==
    LET amount == ingredient[1]
        percentage == ingredient[2]
        final == fa * fp
        second_part == amount * percentage
        combined == final + second_part
        new_amount == fa + amount
    IN IF new_amount < 0
       THEN {[final_amount |-> new_amount, final_percentage |-> fp, err |-> FALSE]}
       ELSE IF new_amount = 0
       THEN {[final_amount |-> new_amount, final_percentage |-> fp, err |-> TRUE]}
       ELSE {[final_amount |-> new_amount, final_percentage |-> c,
              err |-> FALSE] : c \in round(combined, 1000 * new_amount, 3)}

\* combine(ingredients): the loop run from (0, 0) to the end of the
\* sequence or to the first ZeroDivisionError; the results it may give.
RECURSIVE combine_from(_, _, _)
combine_from(fa, fp, s) ==
    IF s = <<>>
    THEN {[final_amount |-> fa, final_percentage |-> fp, err |-> FALSE]}
    ELSE UNION {IF r.err THEN {r}
                ELSE combine_from(r.final_amount, r.final_percentage, Tail(s)) :
                r \in step(fa, fp, s[1])}

combine(s) == combine_from(0, 0, s)

----------------------------------------------------------------------------
(* read_ingredients (lines 61-113), after the file has been read.          *)
(*                                                                         *)
(* An entry of the YAML list is a dict.  The model keeps the keys the      *)
(* function reads: 'proof' (absent or a number) and 'abv' (absent, a       *)
(* string such as "40%" or "0.4", or a number such as 0.4, which is what   *)
(* YAML makes of an unquoted 0.4).  Numbers are integers of 1e-5.          *)

MaxEntries == 2     \* longest ingredients list read

\* The numbers that appear in the file: 0, 0.4, 0.99, 1, 1.98, 2, 30, 40.
FileNumbers == {0, 40000, 99000, 100000, 198000, 200000, 3000000, 4000000}

AbvTypes == {"absent", "str", "number"}

Entries ==
    {[has_proof |-> hp, proof |-> p, abv_type |-> t, abv |-> a] :
        hp \in BOOLEAN, p \in FileNumbers, t \in AbvTypes, a \in FileNumbers}

\* Entries in canonical form: an absent key holds 0.
FileEntries ==
    {e \in Entries : /\ (~e.has_proof => e.proof = 0)
                     /\ (e.abv_type = "absent" => e.abv = 0)}

FileContents == UNION {[1..n -> FileEntries] : n \in 0..MaxEntries}

\* str(x) of a float x (line 101), as the number the text denotes.  Python 2
\* keeps 12 significant digits.
RECURSIVE Digits(_)
Digits(n) == IF n < 10 THEN 1 ELSE 1 + Digits(n \div 10)

RECURSIVE str_of_float(_)
str_of_float(x) ==
    IF Digits(Abs(x)) <= 12 THEN x ELSE 10 * str_of_float(Nearest(x, 10))

\* Lines 100-104: a proof, when present, is popped and replaces 'abv' by the
\* text of proof / 2.0.
proof_to_abv(e) ==
    IF e.has_proof
    THEN [has_proof |-> FALSE, proof |-> 0, abv_type |-> "str",
          abv |-> str_of_float(e.proof \div 2)]
    ELSE e

\* Lines 108-110: numbers above 0.99 are percentages.
scale_abv(abv) == IF abv > 99000 THEN abv \div 100 ELSE abv

\* Lines 107-111: ingredient['abv'].strip().strip("%") is converted to a
\* float and scaled.  A missing 'abv' raises KeyError; an 'abv' that is not
\* a string has no strip and raises AttributeError.
clean_abv(e) ==
    IF e.abv_type = "absent"
    THEN [status |-> "KeyError", entry |-> e]
    ELSE IF e.abv_type # "str"
    THEN [status |-> "AttributeError", entry |-> e]
    ELSE [status |-> "ok",
          entry |-> [e EXCEPT !.abv_type = "float", !.abv = scale_abv(e.abv)]]

\* The body of the for loop (lines 99-111) for one entry.
normalize(e) == clean_abv(proof_to_abv(e))

----------------------------------------------------------------------------------------------------------------------------------------
(* The shared generator of module random.                                  *)
(*                                                                         *)
(* random.random() returns k / RandRes for some k in 0..RandRes-1.  A      *)
(* generator the program never seeded was seeded by the interpreter from   *)
(* the operating system: its draws are arbitrary.  After random.seed(s)    *)
(* the draws are a sequence that s fixes.  The model does not compute the  *)
(* Mersenne Twister: the sequence after random.seed(s) is an arbitrary     *)
(* sequence, the same every time, of which the model learns a value when   *)
(* it is first drawn (seeded_draws) and which it follows for a number of   *)
(* draws (follows, fixed by the initial state: MaxStream where calls are   *)
(* compared with each other, 0 where each call is taken with every         *)
(* sequence its seed may fix); further on, the draws are arbitrary again.  *)

RandRes == 21       \* resolution of random.random()
MaxSeed == 1        \* largest seed passed
MaxStream == 2      \* how far the model follows the sequence a seed fixes
MaxRounding == 1    \* largest rounding passed to random_ratio
MinRounding == 1    \* the most negative rounding passed is -MinRounding

Seeds == 0..MaxSeed

\* The generator when the model does not know what it will draw.
Unseeded == [seeded |-> FALSE, seed |-> 0, pos |-> 0]

\* Nothing is known yet of the sequences the seeds fix.
NothingDrawn == [s \in 1..MaxSeed |-> <<>>]

\* random.seed(s): the generator is at the start of the sequence of s.
random_seed(s) == [seeded |-> TRUE, seed |-> s, pos |-> 0]

\* "if starting_seed: random.seed(starting_seed)" (lines 128-129, 163-165,
\* 198-199): None and 0 are both false.
maybe_seed(g, s) == IF s # None /\ s # 0 THEN random_seed(s) ELSE g

\* The generator is past what the model follows of a seed's sequence.
past_stream(g) == g.seeded /\ g.pos >= follows

\* The values k the next random.random() may return (k / RandRes), sd being
\* what is known of the seeds' sequences.
next_random(g, sd) ==
    IF g.seeded /\ g.pos < Len(sd[g.seed])
    THEN {sd[g.seed][g.pos + 1]}
    ELSE 0..(RandRes - 1)

\* The generator after one draw.
advance(g) ==
    IF g.seeded /\ ~past_stream(g) THEN [g EXCEPT !.pos = g.pos + 1]
    ELSE Unseeded

\* What is known of the seeds' sequences after the generator drew k.
learn(g, sd, k) ==
    IF g.seeded /\ ~past_stream(g) /\ g.pos = Len(sd[g.seed])
    THEN [sd EXCEPT ![g.seed] = Append(sd[g.seed], k)]
    ELSE sd

----------------------------------------------------------------------------
(* random_ratio (lines 115-139).  first, second, third and total are        *)
(* integers of 10^-rounding.                                               *)

\* round's ndigits takes negative values too (round(x, -1) rounds to tens).
Roundings == (0 - MinRounding)..MaxRounding

\* Line 133: round(random.random(), rounding), the draw being u / RandRes.
first_of(u, r) == round(u, RandRes, r)

\* Line 134: round(random.uniform(first, 1.0), rounding), where
\* uniform(a, b) is a + (b - a) * random.random() and the draw is w / RandRes.
\* first is f * UnitNum / UnitDen.
second_of(f, w, r) ==
    round(f * UnitNum(r) * RandRes + (UnitDen(r) - f * UnitNum(r)) * w,
          UnitDen(r) * RandRes, r)

\* Line 135: round(1.0 - second - first, rounding).
third_of(f, s, r) == round(UnitDen(r) - (s + f) * UnitNum(r), UnitDen(r), r)

\* round(t, rounding) == 1.0, for t a number of 10^-rounding.
rounds_to_one(t, r) ==
    \E x \in round(t * UnitNum(r), UnitDen(r), r) :
        x * UnitNum(r) = UnitDen(r)

\* Line 132: round(total, rounding) != 1.0.
loop_test(t, r) ==
    \E x \in round(t * UnitNum(r), UnitDen(r), r) :
        x * UnitNum(r) # UnitDen(r)

\* Lines 133-135: the values <<first, second, third>> one pass of the loop
\* may compute from the draws u (line 133) and w (line 134).
draws(u, w, r) ==
    UNION {UNION {{<<f, s, th>> : th \in third_of(f, s, r)} :
                  s \in second_of(f, w, r)} :
           f \in first_of(u, r)}

\* A variant of lines 136-138 that never assigns total.
body_stale_total(d, t) ==
    [first |-> d[1], second |-> d[2], third |-> d[3], total |-> t,
     continued |-> d[3] < 0]

\* A variant of lines 136-138 without the "if third < 0: continue".
body_no_reject(d, t) ==
    [first |-> d[1], second |-> d[2], third |-> d[3],
     total |-> d[1] + d[2] + d[3], continued |-> FALSE]

\* Lines 136-138: the end of a pass that computed d = <<first, second,
\* third>>; t is the total before the pass, kept when the pass ends in
\* "continue".
body(d, t) ==
    [first |-> d[1], second |-> d[2], third |-> d[3],
     total |-> IF d[3] < 0 THEN t ELSE d[1] + d[2] + d[3],
     continued |-> d[3] < 0]

\* Lines 133-135 for every rounding and pair of draws.
AllDraws ==
    [r \in Roundings |->
        [u \in 0..(RandRes - 1) |->
            [w \in 0..(RandRes - 1) |-> draws(u, w, r)]]]

\* What one pass of the loop may do from generator g: the locals it leaves
\* (loc), the generator after its two draws and what is then known of the
\* seeds' sequences.
passes(g, sd, r, t) ==
    UNION {UNION {{[loc |-> body(d, t),
                    rng |-> advance(advance(g)),
                    seeded_draws |-> learn(advance(g), learn(g, sd, u), w)] :
                      d \in AllDraws[r][u][w]} :
                  w \in next_random(advance(g), learn(g, sd, u))} :
           u \in next_random(g, sd)}

\* n more draws whose values the program's state does not keep: the
\* generators they may leave and what is then known of the seeds' sequences.
RECURSIVE after_draws(_, _, _)
after_draws(g, sd, n) ==
    IF n = 0 THEN {[rng |-> g, seeded_draws |-> sd]}
    ELSE UNION {after_draws(advance(g), learn(g, sd, k), n - 1) :
                k \in next_random(g, sd)}

Max2(a, b) == IF a >= b THEN a ELSE b

Min2(a, b) == IF a <= b THEN a ELSE b

\* Line 139: sorted((first, second, third), reverse=True).
sorted_reverse(a, b, c) ==
    LET hi == Max2(a, Max2(b, c))
        lo == Min2(a, Min2(b, c))
    IN <<hi, a + b + c - hi - lo, lo>>

----------------------------------------------------------------------------
(* random_drink (lines 146-173).                                           *)

COCKTAIL == 70

HIGHBALL == 150

OLD_FASHIONED == 40

DrinkAmounts == {COCKTAIL, HIGHBALL, OLD_FASHIONED}

MaxIngredients == 2     \* longest ingredients list passed to random_drink

\* The ingredient dicts lists are made of; the last has no 'name' key.
KnownIngredients ==
    {[has_name |-> TRUE, name |-> "Rum", abv |-> 400],
     [has_name |-> TRUE, name |-> "Sunny D", abv |-> 0],
     [has_name |-> FALSE, name |-> "", abv |-> 0]}

IngredientLists ==
    UNION {[1..n -> KnownIngredients] : n \in 1..MaxIngredients}

\* random.choice(seq): seq[int(random() * len(seq))], as an index from 1;
\* the draw is k / RandRes.
choice_index(k, n) == ((k * n) \div RandRes) + 1

\* Line 170: .get('name', "Water").
name_of(ingredient) ==
    IF ingredient.has_name THEN ingredient.name ELSE "Water"

\* A variant of line 171 that assigns instead of adding.
pour_assign(d, key, volume) ==
    [k \in (DOMAIN d) \cup {key} |-> IF k = key THEN volume ELSE d[k]]

\* Line 171: drink_ingredients[thisdrink] += i*amount, on a defaultdict(int).
\* Volumes are integers of 10^-1 (the ratio's unit times the amount).
pour(d, key, volume) ==
    [k \in (DOMAIN d) \cup {key} |->
        IF k = key THEN (IF key \in DOMAIN d THEN d[key] ELSE 0) + volume
        ELSE d[k]]

EmptyDrink == [k \in {} |-> 0]

----------------------------------------------------------------------------
(* The state of the functions that are not running.                        *)

CombineIdle ==
    /\ ingredients = <<>>
    /\ i = 0
    /\ final_amount = 0
    /\ final_percentage = 0

ReadIdle ==
    /\ contents = <<>>
    /\ file_ingredients = <<>>
    /\ j = 0

RatioIdle ==
    /\ rounding = 1
    /\ starting_seed = None
    /\ first = 0
    /\ second = 0
    /\ third = 0
    /\ total = 0
    /\ ratio = <<>>
    /\ rejected = FALSE
    /\ lost = FALSE
    /\ caller = "main"

DrinkIdle ==
    /\ drink_amount = 0
    /\ ingredient_list = <<>>
    /\ seed = None
    /\ drink_ingredients = EmptyDrink
    /\ slot = 0
    /\ picks = <<>>

----------------------------------------------------------------------------
(* combine as a state machine: one action per pass of the for loop.        *)

\* Line 40 has run: final_amount, final_percentage = 0, 0.
InitCombine ==
    /\ pc = "combine"
    /\ ingredients \in CombineInputs
    /\ i = 0
    /\ final_amount = 0
    /\ final_percentage = 0
    /\ ReadIdle
    /\ RatioIdle
    /\ DrinkIdle
    /\ rng = Unseeded
    /\ seeded_draws = NothingDrawn
    /\ follows = 0

\* Lines 42-58: the next component is folded in, skipped, or the division
\* raises.
CombineStep ==
    /\ pc = "combine"
    /\ i < Len(ingredients)
    /\ \E r \in step(final_amount, final_percentage, ingredients[i + 1]) :
          /\ final_amount' = r.final_amount
          /\ final_percentage' = r.final_percentage
          /\ pc' = IF r.err THEN "combine_raised" ELSE "combine"
    /\ i' = i + 1
    /\ UNCHANGED <<ingredients, readVars, rngVars, ratioVars, drinkVars>>

\* Line 59: return (final_amount, final_percentage).
CombineReturn ==
    /\ pc = "combine"
    /\ i = Len(ingredients)
    /\ pc' = "combine_returned"
    /\ UNCHANGED <<combineVars, readVars, rngVars, ratioVars, drinkVars>>

NextCombine == CombineStep \/ CombineReturn

CombineSpec == InitCombine /\ [][NextCombine]_vars

----------------------------------------------------------------------------
(* Claims about combine, checked under CombineSpec.                        *)

AllPositive(s) == \A k \in 1..Len(s) : s[k][1] > 0

\* The permutations of a sequence.
Perms(s) ==
    LET n == Len(s)
        bij == {p \in [1..n -> 1..n] : \A a, b \in 1..n : a # b => p[a] # p[b]}
    IN {[k \in 1..n |-> s[p[k]]] : p \in bij}

SomePrefixIsZero(s) == \E n \in 1..Len(s) : SumAmounts(Prefix(s, n)) = 0

SomePrefixIsNegative(s) == \E n \in 1..Len(s) : SumAmounts(Prefix(s, n)) < 0

\* The pair combine returned, as a result record.
Returned ==
    [final_amount |-> final_amount, final_percentage |-> final_percentage,
     err |-> FALSE]

\* The pairs the claimed contract allows for s: the sum of the volumes with
\* the batch weighted mean rounded to 3 places, (0, 0) for no components.
BatchMean(s) ==
    IF s = <<>>
    THEN {[final_amount |-> 0, final_percentage |-> 0, err |-> FALSE]}
    ELSE {[final_amount |-> SumAmounts(s), final_percentage |-> c,
           err |-> FALSE] :
             c \in round(SumAlcohol(s), 1000 * SumAmounts(s), 3)}

\* C1: for components with strictly positive volumes combine returns the sum
\* of the volumes and the batch weighted mean
\* sum(volume * concentration) / sum(volume) rounded to 3 places; for the
\* empty sequence it returns (0, 0).  Where a rounding falls on an exact
\* half the claim is given the benefit of both neighbours: it fails only
\* when no result combine may give is one the contract allows.
C1_BatchMean ==
    AllPositive(ingredients) =>
        /\ pc # "combine_raised"
        /\ pc = "combine_returned" =>
              combine(ingredients) \cap BatchMean(ingredients) # {}

\* C2: for components with strictly positive volumes, combine returns the
\* same pair for every permutation of the sequence.  It fails only when no
\* result combine may give for the permutation is one it may give for the
\* sequence.
C2_OrderIndependent ==
    (pc = "combine_returned" /\ AllPositive(ingredients)) =>
        \A q \in Perms(ingredients) :
            combine(q) \cap combine(ingredients) # {}

\* C3: whenever combine returns (V, c), combine of <<(V, c), (0, 0)>> returns
\* (V, c) again.
C3_Idempotent ==
    pc = "combine_returned" =>
        Returned \in combine(<<<<final_amount, final_percentage>>, <<0, 0>>>>)

\* C9: a pass of the loop in which adding the component leaves the running
\* total negative adds the component's volume and leaves the running
\* concentration as it was; so the returned volume is the sum of all the
\* component volumes, negative ones included.
C9_NegativeStepKeepsVolume ==
    /\ [][(pc = "combine" /\ i' = i + 1
             /\ final_amount + ingredients[i + 1][1] < 0)
          => (/\ pc' = "combine"
              /\ final_amount' = final_amount + ingredients[i + 1][1]
              /\ final_percentage' = final_percentage)]_vars
    /\ [](pc = "combine_returned" => final_amount = SumAmounts(ingredients))

\* C9 witness: combine has returned from a sequence one of whose prefixes
\* had a negative total, with a positive total and a concentration that
\* lacks the skipped component.
C9_Witness ==
    /\ pc = "combine_returned"
    /\ Len(ingredients) = 2
    /\ ingredients[1][1] < 0
    /\ ingredients[1][2] > 0
    /\ final_amount > 0
    /\ final_percentage * final_amount # SumAlcohol(ingredients)

\* C10: combine raises ZeroDivisionError exactly when some non-empty prefix
\* of the sequence has total volume 0, and returns a pair otherwise.
C10_ZeroDivisionIffZeroPrefix ==
    /\ pc = "combine_raised" =>
          /\ SumAmounts(Prefix(ingredients, i)) = 0
          /\ \A n \in 1..(i - 1) : SumAmounts(Prefix(ingredients, n)) # 0
    /\ pc = "combine_returned" => ~SomePrefixIsZero(ingredients)
    /\ (pc = "combine" /\ i = Len(ingredients)) => ~SomePrefixIsZero(ingredients)

\* C10 witness: the division raised on a later component, after a negative
\* running total came back up to exactly 0.
C10_Witness ==
    /\ pc = "combine_raised"
    /\ i = 3
    /\ ingredients[1][1] # 0
    /\ SomePrefixIsNegative(ingredients)

----------------------------------------------------------------------------
(* read_ingredients as a state machine: one action per entry of the list.  *)

\* Line 97 has run: the list is loaded.
InitRead ==
    /\ pc = "read"
    /\ contents \in FileContents
    /\ file_ingredients = contents
    /\ j = 0
    /\ CombineIdle
    /\ RatioIdle
    /\ DrinkIdle
    /\ rng = Unseeded
    /\ seeded_draws = NothingDrawn
    /\ follows = 0

\* Lines 98-111: the next entry is normalised in place, or raises.
ReadStep ==
    /\ pc = "read"
    /\ j < Len(file_ingredients)
    /\ LET r == normalize(file_ingredients[j + 1])
       IN /\ file_ingredients' = [file_ingredients EXCEPT ![j + 1] = r.entry]
          /\ pc' = IF r.status = "ok" THEN "read"
                   ELSE IF r.status = "KeyError" THEN "read_KeyError"
                   ELSE "read_AttributeError"
    /\ j' = j + 1
    /\ UNCHANGED <<contents, combineVars, rngVars, ratioVars, drinkVars>>

\* Line 113: return ingredients.
ReadReturn ==
    /\ pc = "read"
    /\ j = Len(file_ingredients)
    /\ pc' = "read_returned"
    /\ UNCHANGED <<readVars, combineVars, rngVars, ratioVars, drinkVars>>

NextRead == ReadStep \/ ReadReturn

ReadSpec == InitRead /\ [][NextRead]_vars

\* The value the specification gives an entry: proof / 2 or the abv's
\* number, times 0.01 when above 0.99.
SpecifiedAbv(e) ==
    LET start == IF e.has_proof THEN e.proof \div 2 ELSE e.abv
    IN IF start > 99000 THEN start \div 100 ELSE start

\* C7: every entry that has a proof, or an abv given as a percentage string
\* or as a bare number, is normalised to a numeric abv: proof / 2 or the
\* abv's number, multiplied by 0.01 when above 0.99 and left alone otherwise.
C7_EveryEntryNormalised ==
    (\A k \in 1..Len(contents) :
        contents[k].has_proof \/ contents[k].abv_type # "absent")
    => /\ pc \notin {"read_KeyError", "read_AttributeError"}
       /\ pc = "read_returned" =>
             \A k \in 1..Len(contents) :
                 /\ file_ingredients[k].abv_type = "float"
                 /\ file_ingredients[k].abv = SpecifiedAbv(contents[k])

----------------------------------------------------------------------------
(* random_ratio and random_drink as a state machine.                       *)

\* Nothing is called yet.  Each call will be taken with every sequence its
\* seed may fix.
Init ==
    /\ pc = "idle"
    /\ CombineIdle
    /\ ReadIdle
    /\ RatioIdle
    /\ DrinkIdle
    /\ rng = Unseeded
    /\ seeded_draws = NothingDrawn
    /\ follows = 0

\* Nothing is called yet.  The sequences the seeds fix will be followed from
\* call to call.
InitSeed ==
    /\ pc = "idle"
    /\ CombineIdle
    /\ ReadIdle
    /\ RatioIdle
    /\ DrinkIdle
    /\ rng = Unseeded
    /\ seeded_draws = NothingDrawn
    /\ follows = MaxStream

\* random_ratio(rounding=r, starting_seed=s) is called: lines 128-131.
RatioCall ==
    /\ pc = "idle"
    /\ \E r \in Roundings, s \in Seeds \cup {None} :
          /\ rounding' = r
          /\ starting_seed' = s
          /\ rng' = maybe_seed(rng, s)
    /\ total' = 0
    /\ rejected' = FALSE
    /\ lost' = FALSE
    /\ caller' = "main"
    /\ pc' = "ratio_loop"
    /\ UNCHANGED <<first, second, third, ratio, seeded_draws, follows,
                   drinkVars, combineVars, readVars>>

\* random_drink(amount=a, ingredients=l, seed=s) is called and calls
\* random_ratio(starting_seed=seed), rounding being 1: lines 157, 128-131.
DrinkCall ==
    /\ pc = "idle"
    /\ \E a \in DrinkAmounts, l \in IngredientLists, s \in Seeds \cup {None} :
          /\ drink_amount' = a
          /\ ingredient_list' = l
          /\ seed' = s
          /\ starting_seed' = s
          /\ rng' = maybe_seed(rng, s)
    /\ rounding' = 1
    /\ total' = 0
    /\ rejected' = FALSE
    /\ lost' = FALSE
    /\ caller' = "random_drink"
    /\ pc' = "ratio_loop"
    /\ UNCHANGED <<first, second, third, ratio, seeded_draws, follows,
                   drink_ingredients, slot, picks, combineVars, readVars>>

\* Lines 132-138: the loop test holds and the body runs once, with two
\* draws.
RatioIter ==
    /\ pc = "ratio_loop"
    /\ loop_test(total, rounding)
    /\ \E p \in passes(rng, seeded_draws, rounding, total) :
          /\ first' = p.loc.first
          /\ second' = p.loc.second
          /\ third' = p.loc.third
          /\ total' = p.loc.total
          /\ rejected' = (rejected \/ p.loc.continued)
          /\ rng' = p.rng
          /\ seeded_draws' = p.seeded_draws
    /\ lost' = (lost \/ past_stream(rng) \/ past_stream(advance(rng)))
    /\ UNCHANGED <<pc, rounding, starting_seed, ratio, caller, follows,
                   drinkVars, combineVars, readVars>>

\* Lines 132, 139: the loop test fails and the sorted list is returned.
RatioReturn ==
    /\ pc = "ratio_loop"
    /\ rounds_to_one(total, rounding)
    /\ ratio' = sorted_reverse(first, second, third)
    /\ first' = 0
    /\ second' = 0
    /\ third' = 0
    /\ total' = 0
    /\ pc' = IF caller = "main" THEN "ratio_returned" ELSE "drink_seed"
    /\ UNCHANGED <<rngVars, rounding, starting_seed, rejected, lost, caller,
                   drinkVars, combineVars, readVars>>

\* Lines 159-168 of random_drink, the list passed being non-empty: the
\* generator is seeded again and the defaultdict is created.
DrinkSeed ==
    /\ pc = "drink_seed"
    /\ rng' = maybe_seed(rng, seed)
    /\ drink_ingredients' = EmptyDrink
    /\ slot' = 0
    /\ picks' = <<>>
    /\ pc' = "drink_fill"
    /\ UNCHANGED <<drink_amount, ingredient_list, seed, seeded_draws, follows,
                   ratioVars, combineVars, readVars>>

\* Lines 169-171: the next part of the ratio goes to a random ingredient.
DrinkPick ==
    /\ pc = "drink_fill"
    /\ slot < Len(ratio)
    /\ \E k \in next_random(rng, seeded_draws) :
          LET n == choice_index(k, Len(ingredient_list))
              thisdrink == name_of(ingredient_list[n])
          IN /\ drink_ingredients' =
                    pour(drink_ingredients, thisdrink,
                         ratio[slot + 1] * drink_amount)
             /\ picks' = Append(picks, n)
             /\ seeded_draws' = learn(rng, seeded_draws, k)
    /\ rng' = advance(rng)
    /\ slot' = slot + 1
    /\ UNCHANGED <<pc, drink_amount, ingredient_list, seed, follows, ratioVars,
                   combineVars, readVars>>

\* Line 173: return dict(drink_ingredients).
DrinkReturn ==
    /\ pc = "drink_fill"
    /\ slot = Len(ratio)
    /\ pc' = "drink_returned"
    /\ UNCHANGED <<rngVars, drinkVars, ratioVars, combineVars, readVars>>

\* The caller has the result; the locals of the call are gone.
Forget ==
    /\ pc \in {"ratio_returned", "drink_returned"}
    /\ pc' = "idle"
    /\ rounding' = 1
    /\ starting_seed' = None
    /\ ratio' = <<>>
    /\ rejected' = FALSE
    /\ lost' = FALSE
    /\ caller' = "main"
    /\ drink_amount' = 0
    /\ ingredient_list' = <<>>
    /\ seed' = None
    /\ drink_ingredients' = EmptyDrink
    /\ slot' = 0
    /\ picks' = <<>>
    /\ UNCHANGED <<first, second, third, total, combineVars, readVars>>

\* The call is over, and so is the model's account of the generator: what
\* the caller runs before the next call (format_recipe, lines 198-199 and
\* 229-235, reseeds the generator and draws from it) leaves it in a state
\* the model does not follow, and the next call is taken with every
\* sequence a seed may fix.
Finish ==
    /\ Forget
    /\ rng' = Unseeded
    /\ seeded_draws' = NothingDrawn
    /\ UNCHANGED follows

\* The call is over and the generator stays as the call left it.
FinishKeep ==
    /\ Forget
    /\ UNCHANGED rngVars

\* format_recipe(drink, ingredients, seed) with the ingredients given
\* (lines 198-235), as far as the generator goes: it is reseeded when a
\* seed is given, the mixing method is chosen, and stirring takes 2 more
\* choices, shaking 3.  The rest of the function prints.
FormatRecipe ==
    /\ pc = "idle"
    /\ \E s \in Seeds \cup {None} :
          LET g == maybe_seed(rng, s)
          IN \E k \in next_random(g, seeded_draws) :
                \E e \in after_draws(advance(g), learn(g, seeded_draws, k),
                                     IF choice_index(k, 2) = 1 THEN 2 ELSE 3) :
                    /\ rng' = e.rng
                    /\ seeded_draws' = e.seeded_draws
    /\ UNCHANGED <<pc, follows, ratioVars, drinkVars, combineVars, readVars>>

Next ==
    \/ RatioCall
    \/ DrinkCall
    \/ RatioIter
    \/ RatioReturn
    \/ DrinkSeed
    \/ DrinkPick
    \/ DrinkReturn
    \/ Finish

Spec == Init /\ [][Next]_vars

\* A pass of the loop whose draws are accepted.
RatioAccept == RatioIter /\ rounds_to_one(total', rounding)

NextRatio == RatioCall \/ RatioIter \/ RatioReturn \/ Finish

\* Calls of random_ratio alone.  The interpreter keeps running the loop, and
\* a pair of draws that has a positive probability is not avoided for ever.
FairSpec ==
    /\ Init
    /\ [][NextRatio]_vars
    /\ WF_vars(RatioIter)
    /\ WF_vars(RatioReturn)
    /\ WF_vars(RatioAccept)

NextSeed ==
    RatioCall \/ RatioIter \/ RatioReturn \/ FinishKeep \/ FormatRecipe

SeedSpec == InitSeed /\ [][NextSeed]_vars

----------------------------------------------------------------------------
(* Claims about random_ratio and random_drink.                             *)

RatioGiven == pc \in {"ratio_returned", "drink_seed"}

\* C4: whatever the rounding and the draws, the list random_ratio returns
\* has exactly 3 values, none negative, in descending order, and their sum
\* rounded to the precision is 1.0.
C4_RatioShape ==
    RatioGiven =>
        /\ Len(ratio) = 3
        /\ \A k \in 1..3 : ratio[k] >= 0
        /\ ratio[1] >= ratio[2]
        /\ ratio[2] >= ratio[3]
        /\ rounds_to_one(ratio[1] + ratio[2] + ratio[3], rounding)

\* C4 witness: random_ratio has returned [0.7, 0.2, 0.1] at rounding 1 after
\* rejecting at least one pair of draws.
C4_Witness ==
    /\ pc = "ratio_returned"
    /\ rounding = 1
    /\ rejected
    /\ ratio = <<7, 2, 1>>

\* The triples a call of random_ratio returns after one pass whose two draws
\* are the first two of the sequence that seed s fixes, as far as that
\* sequence is known.
seed_ratios(sd, s, r) ==
    IF s \in DOMAIN sd /\ Len(sd[s]) >= 2
    THEN {sorted_reverse(d[1], d[2], d[3]) :
            d \in {x \in AllDraws[r][sd[s][1]][sd[s][2]] :
                     x[3] >= 0 /\ rounds_to_one(x[1] + x[2] + x[3], r)}}
    ELSE {}

\* C5: a call of random_ratio that is given a seed (0 included) draws from
\* the start of the sequence of that seed, so that it returns the triple
\* which that sequence gives at its rounding, the same at every call,
\* whatever the generator's state was before.  Checked under SeedSpec, for
\* calls whose draws the model follows.
C5_SameSeedSameRatio ==
    (/\ pc = "ratio_returned"
     /\ starting_seed # None
     /\ ~lost)
    => ratio \in seed_ratios(seeded_draws, starting_seed, rounding)

\* The volumes of a drink, summed.
RECURSIVE SumDrink(_, _)
SumDrink(d, keys) ==
    IF keys = {} THEN 0
    ELSE LET k == CHOOSE x \in keys : TRUE
         IN d[k] + SumDrink(d, keys \ {k})

\* What the parts of the ratio that went to key k amount to, in tenths (the
\* ratio of random_drink is in tenths).
RECURSIVE PouredTo(_, _)
PouredTo(k, n) ==
    IF n = 0 THEN 0
    ELSE PouredTo(k, n - 1)
         + (IF name_of(ingredient_list[picks[n]]) = k
            THEN ratio[n] * drink_amount ELSE 0)

DrinkAccounts ==
    /\ Cardinality(DOMAIN drink_ingredients) \in 1..3
    /\ Len(picks) = 3
    /\ \A k \in DOMAIN drink_ingredients :
          drink_ingredients[k] = PouredTo(k, 3)
    /\ \A n \in 1..3 :
          name_of(ingredient_list[picks[n]]) \in DOMAIN drink_ingredients
    /\ SumDrink(drink_ingredients, DOMAIN drink_ingredients)
          = 10 * drink_amount

\* C6 as stated: the drink random_drink returns has 1 to 3 entries, every
\* key is the name of an ingredient of the list, each part of the ratio adds
\* part * amount to exactly one key, and the volumes sum to the amount.
C6_DrinkFromList ==
    pc = "drink_returned" =>
        /\ DrinkAccounts
        /\ \A k \in DOMAIN drink_ingredients :
              \E n \in 1..Len(ingredient_list) :
                  /\ ingredient_list[n].has_name
                  /\ ingredient_list[n].name = k

\* C6 as amended: the same, where every key is the name of an ingredient of
\* the list or "Water", the key line 170 uses for an entry without a name.
C6_DrinkFromListOrWater ==
    pc = "drink_returned" =>
        /\ DrinkAccounts
        /\ \A k \in DOMAIN drink_ingredients :
              \E n \in 1..Len(ingredient_list) :
                  \/ /\ ingredient_list[n].has_name
                     /\ ingredient_list[n].name = k
                  \/ /\ ~ingredient_list[n].has_name
                     /\ k = "Water"

\* C6 witness: random_drink has returned a drink in which two parts of the
\* ratio, both positive, went to the same ingredient and the third to
\* another.
C6_Witness ==
    /\ pc = "drink_returned"
    /\ Cardinality(DOMAIN drink_ingredients) = 2
    /\ picks[1] = picks[2]
    /\ ratio[2] > 0
    /\ ratio[3] > 0
    /\ \A n \in 1..Len(ingredient_list) : ingredient_list[n].has_name

\* C8 as stated: under FairSpec, whatever the rounding, the while loop of
\* random_ratio is always left: a call that is in the loop, rejected draws
\* behind it or not, returns.
C8_LoopEnds == (pc = "ratio_loop") ~> RatioGiven

\* C8 as amended: the same for a rounding of 0 or more decimal places.
C8_LoopEndsFromZeroPlaces ==
    (pc = "ratio_loop" /\ rounding >= 0) ~> RatioGiven

\* C8 witness: a pass of the loop has been rejected and the loop goes on.
C8_Witness ==
    /\ pc = "ratio_loop"
    /\ rounding >= 0
    /\ rejected
    /\ loop_test(total, rounding)

====
